---------------------------- MODULE Spec2Model ----------------------------
(***************************************************************************)
(* NICU compass: the request handler `generate` of src/main.py, with the   *)
(* input sanitizer clamp_text and the shape enforcer enforce_shape.        *)
(*                                                                         *)
(* A text field is a sequence of one-character strings.  A deserialized    *)
(* JSON value is a tagged record [t, v]: t is the Python type of the       *)
(* value and v its content (a dict's v is a function from its keys).       *)
(***************************************************************************)
EXTENDS Integers, Sequences, FiniteSets, TLC

VARIABLES
    pc,             \* position of the handler in generate()
    api_key,        \* os.getenv("OPENAI_API_KEY")
    form,           \* the form fields as received
    dateISO, respSupport, feedingMethod, weightKg, weightHistory, notes,
    cga,            \* the derived corrected-gestational-age token
    prompt,         \* the fields as the user message embeds them
    calls,          \* number of client.chat.completions.create invocations
    reply,          \* what the invocation did: raised, or returned a content
    parsed,         \* json.loads(content)
    safe,           \* the outcome of enforce_shape(parsed)
    response        \* what the handler returns

vars == <<pc, api_key, form, dateISO, respSupport, feedingMethod, weightKg,
          weightHistory, notes, cga, prompt, calls, reply, parsed, safe, response>>

(***************************************************************************)
(* Bounds of the model.                                                    *)
(***************************************************************************)
\* longest list of arbitrary elements put under one category
MaxLen == 2
\* length of the long all-string lists (beyond the cap of 12)
MaxStrs == 13
\* whitespace put around a text field
MaxPad == 2
\* number of characters by which a long text field exceeds its maximum
Excess == 300

Range(s) == {s[i] : i \in 1..Len(s)}

(***************************************************************************)
(* JSON values, as json.loads builds them.                                 *)
(***************************************************************************)
Null == [t |-> "null", v |-> <<>>]
Bool(b) == [t |-> "bool", v |-> b]
Num(n) == [t |-> "number", v |-> n]
Str(s) == [t |-> "str", v |-> s]
List(s) == [t |-> "list", v |-> s]
Dict(f) == [t |-> "dict", v |-> f]

\* a Python exception leaving a call
Raise(e) == [t |-> "raise", v |-> e]

\* a local variable not assigned yet
Unset == [t |-> "unset", v |-> <<>>]

(***************************************************************************)
(* empty_payload                                                           *)
(***************************************************************************)
SummarySecs == <<"breathing", "feeding", "growth", "events">>

QuestionSecs == <<"breathing", "feeding", "growth", "events", "discharge">>

CapOrder_sorted == <<"breathing", "discharge", "events", "feeding", "growth">>

\* the order in which the cap visits the categories
CapOrder == <<"breathing", "feeding", "growth", "events", "discharge">>

MaxQuestions == 12

empty_payload_extra ==
    Dict([summary |-> Dict([s \in Range(QuestionSecs) |-> List(<<>>)]),
          questions |-> Dict([s \in Range(QuestionSecs) |-> List(<<>>)])])

empty_payload ==
    Dict([summary |-> Dict([s \in Range(SummarySecs) |-> List(<<>>)]),
          questions |-> Dict([s \in Range(QuestionSecs) |-> List(<<>>)])])

(***************************************************************************)
(* enforce_shape                                                           *)
(***************************************************************************)
\* isinstance(x, str)
IsStr(x) == x.t = "str"

\* str(x) of a value that is no string
Repr(x) == Str(x.t)

StringsOf_coerce(arr) == [i \in 1..Len(arr.v) |->
                            IF IsStr(arr.v[i]) THEN arr.v[i] ELSE Repr(arr.v[i])]

\* [str(x) for x in arr if isinstance(x, str)]
StringsOf(arr) == SelectSeq(arr.v, IsStr)

\* d.get(key, default) of a dict d
DictGet(d, key, default) == IF key \in DOMAIN d.v THEN d.v[key] ELSE default

\* One extraction loop: for sec in secs: arr = obj.get(name, {}).get(sec) ...
\* obj.get(name, {}) is whatever obj holds under name; .get on a value that is
\* no dict raises AttributeError.
Extract(base, obj, name, secs) ==
    LET section == DictGet(obj, name, Dict(<<>>)) IN
    IF section.t # "dict"
    THEN Raise("AttributeError")
    ELSE Dict([base.v EXCEPT ![name] = Dict(
            [sec \in DOMAIN base.v[name].v |->
                LET arr == DictGet(section, sec, Null) IN
                IF sec \in Range(secs) /\ arr.t = "list"
                THEN List(StringsOf(arr))
                ELSE base.v[name].v[sec]])])

Accept_through(total) == total <= MaxQuestions

\* the inner loop goes on: not (total >= 12)
Accept(total) == total < MaxQuestions

InitTrimmed_keep(prev) == prev

\* trimmed: List[str] = []
InitTrimmed(prev) == <<>>

\* for q in base["questions"][sec]: from element k on, with the locals in acc
RECURSIVE Take(_, _, _)
Take(cand, k, acc) ==
    IF k > Len(cand) \/ ~Accept(acc.total)
    THEN acc
    ELSE Take(cand, k + 1, [trimmed |-> Append(acc.trimmed, cand[k]),
                            total |-> acc.total + 1])

\* for sec in [...]: from the i-th category on; prev is trimmed as the
\* previous iteration left it
RECURSIVE CapFrom(_, _, _, _)
CapFrom(q, i, total, prev) ==
    IF i > Len(CapOrder)
    THEN q
    ELSE LET sec == CapOrder[i]
             acc == Take(q[sec].v, 1, [trimmed |-> InitTrimmed(prev),
                                       total |-> total])
         IN CapFrom([q EXCEPT ![sec] = List(acc.trimmed)], i + 1,
                    acc.total, acc.trimmed)

\* Cap total questions at 12
CapQuestions(base) ==
    Dict([base.v EXCEPT !["questions"] =
            Dict(CapFrom(base.v["questions"].v, 1, 0, <<>>))])

enforce_shape(obj) ==
    IF obj.t # "dict"
    THEN empty_payload
    ELSE LET b1 == Extract(empty_payload, obj, "summary", SummarySecs) IN
         IF b1.t = "raise"
         THEN b1
         ELSE LET b2 == Extract(b1, obj, "questions", QuestionSecs) IN
              IF b2.t = "raise"
              THEN b2
              ELSE CapQuestions(b2)

(***************************************************************************)
(* Text: str.strip, clamp_text, int(), f"{w}+{d}"                          *)
(***************************************************************************)
\* None, where a text is expected: a sequence that is no text, its one
\* element being no character
None == <<"None">>

\* bool(s) of an Optional[str]
Truthy(s) == s # None /\ s # <<>>

Whitespace == {" ", "\t", "\n"}

RECURSIVE FirstKept(_, _)
FirstKept(s, i) ==
    IF i > Len(s) \/ s[i] \notin Whitespace THEN i ELSE FirstKept(s, i + 1)

RECURSIVE LastKept(_, _)
LastKept(s, j) ==
    IF j < 1 \/ s[j] \notin Whitespace THEN j ELSE LastKept(s, j - 1)

\* s.strip()
strip(s) == SubSeq(s, FirstKept(s, 1), LastKept(s, Len(s)))

clamp_text_cut_first(s, max_chars) ==
    strip(IF Len(s) > max_chars THEN SubSeq(s, 1, max_chars) ELSE s)

clamp_text(s, max_chars) ==
    LET t == strip(s) IN
    IF Len(t) > max_chars THEN SubSeq(t, 1, max_chars) ELSE t

Digits == <<"0", "1", "2", "3", "4", "5", "6", "7", "8", "9">>

IsDigit(c) == c \in Range(Digits)

DigitVal(c) == CHOOSE d \in 0..9 : Digits[d + 1] = c

RECURSIVE DigitsVal(_, _)
DigitsVal(s, acc) ==
    IF s = <<>> THEN acc ELSE DigitsVal(Tail(s), 10 * acc + DigitVal(Head(s)))

\* int(s) of a str: surrounding whitespace and one sign are accepted, then
\* decimal digits only; anything else raises ValueError (the texts of the
\* model hold no underscore and no digit outside 0-9)
ParseInt(s) ==
    LET t == strip(s)
        signed == t # <<>> /\ Head(t) \in {"+", "-"}
        body == IF signed THEN Tail(t) ELSE t
    IN IF body = <<>> \/ \E i \in 1..Len(body) : ~IsDigit(body[i])
       THEN Raise("ValueError")
       ELSE Num((IF signed /\ Head(t) = "-" THEN -1 ELSE 1) * DigitsVal(body, 0))

\* f"{n}" of an int
RECURSIVE Decimal(_)
Decimal(n) ==
    IF n < 0 THEN <<"-">> \o Decimal(-n)
    ELSE IF n < 10 THEN <<Digits[n + 1]>>
    ELSE Decimal(n \div 10) \o <<Digits[(n % 10) + 1]>>

(***************************************************************************)
(* generate: the request handler                                           *)
(***************************************************************************)
DateMax == 20
RespMax == 30
FeedMax == 30
WeightMax == 20
HistoryMax == 300
NotesMax == 1200
MinWeeks == 22
MaxWeeks == 44
MaxDays == 6

RoomAir == <<"R", "o", "o", "m", " ", "a", "i", "r">>
Combo == <<"C", "o", "m", "b", "o">>

\* clamp_text(x, m) if x else None
ClampOpt(x, m) == IF Truthy(x) THEN clamp_text(x, m) ELSE None

CgaInRange_wide(w, d) == MinWeeks <= w /\ w <= MaxWeeks /\ 0 <= d /\ d <= MaxDays + 1

\* 22 <= w <= 44 and 0 <= d <= 6
CgaInRange(w, d) == MinWeeks <= w /\ w <= MaxWeeks /\ 0 <= d /\ d <= MaxDays

\* lines 80-88: the try block leaves cga None when int() raises ValueError
DeriveCgaOf(cgaWeeks, cgaDays) ==
    IF ~Truthy(cgaWeeks) THEN None
    ELSE LET w == ParseInt(cgaWeeks) IN
         IF w.t = "raise" THEN None
         ELSE LET d == IF Truthy(cgaDays) THEN ParseInt(cgaDays) ELSE Num(0) IN
              IF d.t = "raise" THEN None
              ELSE IF CgaInRange(w.v, d.v)
                   THEN Decimal(w.v) \o <<"+">> \o Decimal(d.v)
                   ELSE None

IsShortCircuit_weight(n, w, r, f) ==
    ~Truthy(n) /\ Truthy(w) /\ r = RoomAir /\ f = Combo

\* not notes and not weightKg and respSupport == "Room air"
\*   and feedingMethod == "Combo"
IsShortCircuit(n, w, r, f) ==
    ~Truthy(n) /\ ~Truthy(w) /\ r = RoomAir /\ f = Combo

Unknown == <<"u", "n", "k", "n", "o", "w", "n">>
NoneText == <<"n", "o", "n", "e">>
Weeks == <<" ", "w", "e", "e", "k", "s">>

\* x or default
OrElse(x, default) == IF Truthy(x) THEN x ELSE default

\* lines 154-165: the variable parts of the user message
UserMessage(d, c, r, f, w, h, n) ==
    [date |-> d,
     cga |-> IF Truthy(c) THEN c \o Weeks ELSE Unknown,
     resp |-> r,
     feeding |-> f,
     weight |-> OrElse(w, Unknown),
     history |-> OrElse(h, NoneText),
     notes |-> OrElse(n, NoneText)]

NoPrompt == [date |-> None, cga |-> None, resp |-> None, feeding |-> None,
             weight |-> None, history |-> None, notes |-> None]

NoResponse == [status |-> 0, body |-> Unset]

Ok(body) == [status |-> 200, body |-> body]

MissingKeyError ==
    [status |-> 500, body |-> Dict([error |-> Str("Missing OPENAI_API_KEY env var on server.")])]

OnException_swallow(e) == Ok(empty_payload)

\* except Exception as e: return JSONResponse({"error": str(e)}, status_code=500)
OnException(e) == [status |-> 500, body |-> Dict([error |-> Str(e.v)])]

\* the message content the service returned: None, or a text, which is
\* modelled by what json.loads makes of it (a value, or JSONDecodeError)
NoneContent == [t |-> "content", v |-> Null]
Text(loads) == [t |-> "content", v |-> loads]
JSONDecodeError == Raise("JSONDecodeError")

\* json.loads(resp.choices[0].message.content or "")
JsonLoads(content) == IF content = NoneContent THEN JSONDecodeError ELSE content.v

MissingKey ==
    /\ pc = "start"
    /\ ~Truthy(api_key)
    /\ response' = MissingKeyError
    /\ pc' = "done"
    /\ UNCHANGED <<api_key, form, dateISO, respSupport, feedingMethod, weightKg,
                   weightHistory, notes, cga, prompt, calls, reply, parsed, safe>>

ClampFields ==
    /\ pc = "start"
    /\ Truthy(api_key)
    /\ dateISO' = clamp_text(form.dateISO, DateMax)
    /\ respSupport' = clamp_text(form.respSupport, RespMax)
    /\ feedingMethod' = clamp_text(form.feedingMethod, FeedMax)
    /\ weightKg' = ClampOpt(form.weightKg, WeightMax)
    /\ weightHistory' = ClampOpt(form.weightHistory, HistoryMax)
    /\ notes' = ClampOpt(form.notes, NotesMax)
    /\ pc' = "cga"
    /\ UNCHANGED <<api_key, form, cga, prompt, calls, reply, parsed, safe, response>>

DeriveCga ==
    /\ pc = "cga"
    /\ cga' = DeriveCgaOf(form.cgaWeeks, form.cgaDays)
    /\ pc' = "gate"
    /\ UNCHANGED <<prompt, api_key, form, dateISO, respSupport, feedingMethod, weightKg,
                   weightHistory, notes, calls, reply, parsed, safe, response>>

ShortCircuit ==
    /\ pc = "gate"
    /\ IsShortCircuit(notes, weightKg, respSupport, feedingMethod)
    /\ response' = Ok(empty_payload)
    /\ pc' = "done"
    /\ UNCHANGED <<api_key, form, dateISO, respSupport, feedingMethod, weightKg,
                   weightHistory, notes, cga, prompt, calls, reply, parsed, safe>>

BuildPrompt ==
    /\ pc = "gate"
    /\ ~IsShortCircuit(notes, weightKg, respSupport, feedingMethod)
    /\ prompt' = UserMessage(dateISO, cga, respSupport, feedingMethod, weightKg,
                             weightHistory, notes)
    /\ pc' = "call"
    /\ UNCHANGED <<api_key, form, dateISO, respSupport, feedingMethod, weightKg,
                   weightHistory, notes, cga, calls, reply, parsed, safe, response>>

\* client.chat.completions.create(...) raises, or resp.choices[0] does
CallRaises ==
    /\ pc = "call"
    /\ \E e \in {"APIConnectionError", "RateLimitError", "IndexError"} :
          /\ reply' = Raise(e)
          /\ response' = OnException(Raise(e))
    /\ calls' = calls + 1
    /\ pc' = "done"
    /\ UNCHANGED <<api_key, form, dateISO, respSupport, feedingMethod, weightKg,
                   weightHistory, notes, cga, prompt, parsed, safe>>

\* the call returns a response whose message content is c
CallReturns(c) ==
    /\ pc = "call"
    /\ reply' = c
    /\ calls' = calls + 1
    /\ pc' = "parse"
    /\ UNCHANGED <<api_key, form, dateISO, respSupport, feedingMethod, weightKg,
                   weightHistory, notes, cga, prompt, parsed, safe, response>>

ParseFails ==
    /\ pc = "parse"
    /\ JsonLoads(reply).t = "raise"
    /\ response' = OnException(JsonLoads(reply))
    /\ pc' = "done"
    /\ UNCHANGED <<api_key, form, dateISO, respSupport, feedingMethod, weightKg,
                   weightHistory, notes, cga, prompt, calls, reply, parsed, safe>>

ParseOk ==
    /\ pc = "parse"
    /\ JsonLoads(reply).t # "raise"
    /\ parsed' = JsonLoads(reply)
    /\ pc' = "enforce"
    /\ UNCHANGED <<api_key, form, dateISO, respSupport, feedingMethod, weightKg,
                   weightHistory, notes, cga, prompt, calls, reply, safe, response>>

EnforceRaises ==
    /\ pc = "enforce"
    /\ enforce_shape(parsed).t = "raise"
    /\ safe' = enforce_shape(parsed)
    /\ response' = OnException(enforce_shape(parsed))
    /\ pc' = "done"
    /\ UNCHANGED <<api_key, form, dateISO, respSupport, feedingMethod, weightKg,
                   weightHistory, notes, cga, prompt, calls, reply, parsed>>

EnforceReturns ==
    /\ pc = "enforce"
    /\ enforce_shape(parsed).t # "raise"
    /\ safe' = enforce_shape(parsed)
    /\ response' = Ok(enforce_shape(parsed))
    /\ pc' = "done"
    /\ UNCHANGED <<api_key, form, dateISO, respSupport, feedingMethod, weightKg,
                   weightHistory, notes, cga, prompt, calls, reply, parsed>>

(***************************************************************************)
(* The values the service's content may deserialize to.                    *)
(***************************************************************************)
\* a key the dict does not hold
Absent == [t |-> "absent", v |-> <<>>]

\* the dict of the keys c gives a value
MkDict(c) == Dict([k \in {x \in DOMAIN c : c[x] # Absent} |-> c[k]])

Elems == {Str("a"), Str("b"), Num(1), Null, Bool(TRUE), Dict(<<>>)}

ShortLists == UNION {[1..n -> Elems] : n \in 0..MaxLen}

\* n distinct strings
Strs(tag, n) == [i \in 1..n |-> Str(tag \o "-" \o ToString(i))]

\* what a category holds instead of a list
WrongTyped == {Null, Str("text"), Num(7), Dict([a |-> List(<<Str("z")>>)])}

RichVals == {List(l) : l \in ShortLists} \cup {List(Strs("s", MaxStrs))}
                \cup WrongTyped \cup {Absent}

SimpleVals == {Absent, List(<<Num(1), Str("c")>>)}

SummaryKeys == Range(SummarySecs) \cup {"discharge"}

QuestionKeys == Range(QuestionSecs) \cup {"other"}

FullSummary == Dict([k \in Range(SummarySecs) |-> List(Strs(k, 2))])

\* a questions category by its shape: n >= 0 is a list of n strings
QShapes == {-3, -2, -1, 0, 2, 5, 10, MaxStrs}

QVal(k, shape) ==
    CASE shape = -3 -> List(<<Str(k \o "-1"), Num(2), Str(k \o "-2"), Null>>)
      [] shape = -2 -> Absent
      [] shape = -1 -> Str("text")
      [] OTHER -> List(Strs(k, shape))

SimpleQuestions ==
    {Dict([breathing |-> List(<<Str("q"), Num(0)>>), other |-> List(<<Str("x")>>)])}

\* what summary or questions holds instead of a dict
WrongSections == {Null, Str("text"), Num(7), Bool(FALSE), List(<<Str("a")>>)}

Scalars == {Null, Bool(TRUE), Num(3), Str("hello"), List(<<>>),
            List(<<Dict([summary |-> Null])>>)}

\* summary: category r holds y, the others what s gives them
SummaryObject(r, y, s, q) ==
    MkDict([summary |-> MkDict([k \in SummaryKeys |-> IF k = r THEN y ELSE s[k]]),
            questions |-> q,
            extra |-> IF q = Absent THEN Absent ELSE Str("x")])

\* questions: each category of the shape sh gives it
QuestionsObject(sh, s) ==
    MkDict([summary |-> s,
            questions |-> MkDict([k \in QuestionKeys |->
                            IF k = "other" THEN Absent ELSE QVal(k, sh[k])])])

\* summary and questions as given, of a wrong type or absent
SectionsObject(s, q) == MkDict([summary |-> s, questions |-> q])

\* the values of the handler-side specification
FewValues == {Null, List(<<>>), Dict(<<>>), Dict([summary |-> Null]),
              Dict([summary |-> FullSummary,
                    questions |-> Dict([breathing |-> List(Strs("q", MaxStrs))])])}

(***************************************************************************)
(* The requests.                                                           *)
(***************************************************************************)
Pad(n) == [i \in 1..n |-> " "]

\* n characters, the first and the last no whitespace
Body(n) == [i \in 1..n |->
              IF i % 5 = 0 /\ i < n THEN " " ELSE IF i % 2 = 0 THEN "x" ELSE "y"]

Padded(l, n, r) == Pad(l) \o Body(n) \o Pad(r)

\* texts around a maximum m
Around(m) == {Padded(MaxPad, m, 1), Padded(1, m + 1, MaxPad),
              Padded(MaxPad, m + Excess, MaxPad)}

PlainForm == [dateISO |-> Body(10), respSupport |-> Body(4),
              feedingMethod |-> Combo, weightKg |-> Body(3),
              cgaWeeks |-> <<"3", "0">>, cgaDays |-> <<"4">>,
              weightHistory |-> None, notes |-> Body(7)]

QuietForm == [PlainForm EXCEPT !.respSupport = RoomAir, !.weightKg = None,
                               !.notes = None]

WeekTexts == {None, <<>>, <<"3", "0">>, <<" ", "3", "0", " ">>, <<"+", "3", "0">>,
              <<"0", "3", "0">>, <<"2", "1">>, <<"2", "2">>, <<"4", "4">>,
              <<"4", "5">>, <<"-", "3", "0">>, <<"3", "0", ".", "5">>,
              <<"a", "b", "c">>, <<" ">>}

DayTexts == {None, <<>>, <<"0">>, <<"4">>, <<"6">>, <<"7">>, <<"9">>,
             <<"-", "1">>, <<"x">>, <<"4", " ">>, <<" ">>}

\* the text fields at and beyond their maxima
TextForm(f) ==
    \/ \E d \in {Body(10), Padded(1, DateMax + 1, MaxPad)},
          r \in {RoomAir} \cup Around(RespMax),
          fm \in {Combo, Padded(MaxPad, FeedMax + 1, 0)},
          w \in {None} \cup Around(WeightMax),
          h \in {None, Body(9)} \cup Around(HistoryMax),
          n \in {None, Body(NotesMax)} \cup Around(NotesMax) :
            f = [PlainForm EXCEPT !.dateISO = d, !.respSupport = r,
                                  !.feedingMethod = fm, !.weightKg = w,
                                  !.weightHistory = h, !.notes = n]
    \/ \E d \in Around(DateMax) : f = [PlainForm EXCEPT !.dateISO = d]
    \/ \E fm \in Around(FeedMax) : f = [PlainForm EXCEPT !.feedingMethod = fm]

\* the two sub-fields of the corrected gestational age
CgaForm(f) ==
    \E g \in {PlainForm, QuietForm}, w \in WeekTexts, d \in DayTexts :
        f = [g EXCEPT !.cgaWeeks = w, !.cgaDays = d]

\* the fields the short-circuit reads
GateForm(f) ==
    \E n \in {None, <<>>, Pad(MaxPad), Body(7)},
       w \in {None, <<>>, Pad(1), Body(3)},
       r \in {RoomAir, Pad(1) \o RoomAir \o Pad(MaxPad), Body(4),
              <<"r", "o", "o", "m", " ", "a", "i", "r">>},
       fm \in {Combo, Pad(MaxPad) \o Combo, Body(6)} :
        f = [PlainForm EXCEPT !.notes = n, !.weightKg = w, !.respSupport = r,
                              !.feedingMethod = fm]

Keys == {None, <<>>, <<"s", "k">>}

(***************************************************************************)
(* The specifications.                                                     *)
(***************************************************************************)
Start ==
    /\ pc = "start"
    /\ dateISO = None /\ respSupport = None /\ feedingMethod = None
    /\ weightKg = None /\ weightHistory = None /\ notes = None
    /\ cga = None
    /\ prompt = NoPrompt
    /\ calls = 0
    /\ reply = Unset
    /\ parsed = Unset
    /\ safe = Unset
    /\ response = NoResponse

\* the steps that do not depend on what the service returns
Handler ==
    \/ MissingKey
    \/ ClampFields
    \/ DeriveCga
    \/ ShortCircuit
    \/ BuildPrompt
    \/ CallRaises
    \/ ParseFails
    \/ ParseOk
    \/ EnforceRaises
    \/ EnforceReturns

\* the service returns one of a few contents
ReturnsFew ==
    /\ pc = "call"
    /\ \/ \E c \in {NoneContent, Text(JSONDecodeError)} : CallReturns(c)
       \/ \E x \in FewValues : CallReturns(Text(x))

\* the service returns any content of the bounded family
ReturnsMany ==
    /\ pc = "call"
    /\ \/ \E c \in {NoneContent, Text(JSONDecodeError)} : CallReturns(c)
       \/ \E x \in Scalars : CallReturns(Text(x))
       \/ \E r \in Range(SummarySecs), y \in RichVals,
             s \in [SummaryKeys -> SimpleVals],
             q \in SimpleQuestions \cup {Absent} :
               CallReturns(Text(SummaryObject(r, y, s, q)))
       \/ \E sh \in [Range(QuestionSecs) -> QShapes], s \in {Absent, FullSummary} :
               CallReturns(Text(QuestionsObject(sh, s)))
       \/ \E s \in WrongSections \cup {Absent, FullSummary},
             q \in WrongSections \cup {Absent} :
               CallReturns(Text(SectionsObject(s, q)))

\* every request, a few contents
Init ==
    /\ Start
    /\ api_key \in Keys
    /\ \/ TextForm(form)
       \/ CgaForm(form)
       \/ GateForm(form)

Next == Handler \/ ReturnsFew

Spec == Init /\ [][Next]_vars

\* a few requests, every content
InitShape == Start /\ api_key \in Keys /\ form \in {PlainForm, QuietForm}

NextShape == Handler \/ ReturnsMany

SpecShape == InitShape /\ [][NextShape]_vars

(***************************************************************************)
(* The properties.                                                         *)
(***************************************************************************)
SummaryNames == {"breathing", "feeding", "growth", "events"}

QuestionNames == {"breathing", "feeding", "growth", "events", "discharge"}

QuestionOrder == <<"breathing", "feeding", "growth", "events", "discharge">>

\* enforce_shape was applied and returned
Returned == safe.t = "dict"

\* x maps exactly the keys of names, each to a sequence
HasLists(x, names) ==
    /\ x.t = "dict"
    /\ DOMAIN x.v = names
    /\ \A k \in names : x.v[k].t = "list"

HasShape(x) ==
    /\ x.t = "dict"
    /\ DOMAIN x.v = {"summary", "questions"}
    /\ HasLists(x.v["summary"], SummaryNames)
    /\ HasLists(x.v["questions"], QuestionNames)

\* the sequence a record holds under a category
Out(x, sec, k) == x.v[sec].v[k].v

RECURSIVE Concat(_, _, _)
\* the sequences f gives the categories of order from i on, one after another
Concat(f, order, i) ==
    IF i > Len(order) THEN <<>> ELSE f[order[i]] \o Concat(f, order, i + 1)

QuestionCount(x) == Len(Concat([k \in QuestionNames |-> Out(x, "questions", k)],
                               QuestionOrder, 1))

\* a well-formed Canonical Record
WellFormed(x) ==
    /\ HasShape(x)
    /\ \A k \in SummaryNames :
          \A i \in 1..Len(Out(x, "summary", k)) : Out(x, "summary", k)[i].t = "str"
    /\ \A k \in QuestionNames :
          \A i \in 1..Len(Out(x, "questions", k)) : Out(x, "questions", k)[i].t = "str"
    /\ QuestionCount(x) <= 12

RECURSIVE OnlyStrings(_)
\* the string elements of s, in their order
OnlyStrings(s) ==
    IF s = <<>> THEN <<>>
    ELSE (IF Head(s).t = "str" THEN <<Head(s)>> ELSE <<>>) \o OnlyStrings(Tail(s))

\* what obj holds under a category of a section, Absent when there is none
In(obj, sec, k) ==
    IF obj.t = "dict" /\ sec \in DOMAIN obj.v /\ obj.v[sec].t = "dict"
       /\ k \in DOMAIN obj.v[sec].v
    THEN obj.v[sec].v[k]
    ELSE Absent

\* the string-filtered candidate list of a category
Candidate(obj, sec, k) ==
    IF In(obj, sec, k).t = "list" THEN OnlyStrings(In(obj, sec, k).v) ELSE <<>>

Min(a, b) == IF a <= b THEN a ELSE b

IsPrefix(p, s) == Len(p) <= Len(s) /\ p = SubSeq(s, 1, Len(p))

\* C1: enforce_shape is total: whatever value it was applied to, it returned
\* a well-formed Canonical Record and did not raise.
C1_Total == safe # Unset => WellFormed(safe)

\* C2: every record returned by enforce_shape, and by empty_payload, has
\* exactly the keys summary and questions, summary exactly its four
\* categories and questions exactly its five, each mapped to a sequence; no
\* other key of the input appears.
C2_Keys ==
    /\ Returned => HasShape(safe)
    /\ (pc = "done" /\ response.status = 200) => HasShape(response.body)

\* the input held keys outside the schema at every level
C2_Witness ==
    /\ Returned
    /\ parsed.t = "dict"
    /\ "extra" \in DOMAIN parsed.v
    /\ In(parsed, "summary", "discharge") # Absent
    /\ In(parsed, "questions", "other") # Absent

\* C3: the lengths of the five questions sequences of a returned record sum
\* to at most 12.
C3_Cap == Returned => QuestionCount(safe) <= 12

\* more than 12 strings were supplied and 12 were kept
C3_Witness ==
    /\ Returned
    /\ Len(Concat([k \in QuestionNames |-> Candidate(parsed, "questions", k)],
                  QuestionOrder, 1)) > 12
    /\ QuestionCount(safe) = 12

\* C4: with C the concatenation of the candidate lists in the order
\* breathing, feeding, growth, events, discharge, the concatenation of the
\* output questions is the first min(12, |C|) elements of C; each output
\* category is a prefix of its candidates, and every category after the one
\* where the total reaches 12 is empty.
C4_OrderedTruncation ==
    Returned =>
        LET cand == [k \in QuestionNames |-> Candidate(parsed, "questions", k)]
            out == [k \in QuestionNames |-> Out(safe, "questions", k)]
            C == Concat(cand, QuestionOrder, 1)
            before(i) == Len(Concat(out, SubSeq(QuestionOrder, 1, i), 1))
        IN /\ Concat(out, QuestionOrder, 1) = SubSeq(C, 1, Min(12, Len(C)))
           /\ \A k \in QuestionNames : IsPrefix(out[k], cand[k])
           /\ \A i \in 1..Len(QuestionOrder) :
                 before(i) < 12 => out[QuestionOrder[i]] = cand[QuestionOrder[i]]
           /\ \A i \in 2..Len(QuestionOrder) :
                 before(i - 1) >= 12 => out[QuestionOrder[i]] = <<>>

\* 10 breathing and 5 feeding: 10 breathing, the first 2 feeding, no other
C4_Witness ==
    /\ Returned
    /\ Len(Candidate(parsed, "questions", "breathing")) = 10
    /\ Len(Candidate(parsed, "questions", "feeding")) = 5
    /\ Len(Candidate(parsed, "questions", "discharge")) = 5
    /\ Len(Out(safe, "questions", "breathing")) = 10
    /\ Out(safe, "questions", "feeding")
          = SubSeq(Candidate(parsed, "questions", "feeding"), 1, 2)
    /\ Out(safe, "questions", "discharge") = <<>>

\* C5: each summary category of a returned record is the subsequence of the
\* string elements of the input's sequence, in order, and is empty when the
\* category is absent or no sequence; the cap of 12 does not apply to it.
C5_SummaryFilter ==
    Returned =>
        \A k \in SummaryNames :
            Out(safe, "summary", k) =
                IF In(parsed, "summary", k).t = "list"
                THEN OnlyStrings(In(parsed, "summary", k).v)
                ELSE <<>>

\* a category of more than 12 strings, and one that lost a non-string
C5_Witness ==
    /\ Returned
    /\ \E k \in SummaryNames : Len(Out(safe, "summary", k)) > 12
    /\ \E k \in SummaryNames :
          /\ In(parsed, "summary", k).t = "list"
          /\ Out(safe, "summary", k) # <<>>
          /\ Len(Out(safe, "summary", k)) < Len(In(parsed, "summary", k).v)

\* C6: enforce_shape applied to a record it returned returns that record,
\* and a well-formed Canonical Record is returned as it is.
C6_Idempotent ==
    /\ Returned => enforce_shape(safe) = safe
    /\ (Returned /\ WellFormed(parsed)) => safe = parsed

\* a well-formed record of 12 questions went through unchanged
C6_Witness ==
    /\ Returned
    /\ WellFormed(parsed)
    /\ QuestionCount(parsed) = 12
    /\ safe = parsed
    /\ enforce_shape(safe) = safe

\* the handler is past the clamping of the fields
Clamped == Truthy(api_key) /\ pc # "start"

\* the handler is past the derivation of the token
Derived == Clamped /\ pc # "cga"

\* out is the trimmed raw when that has at most m characters, else its
\* first m characters
ClampSpec(raw, out, m) ==
    LET t == strip(raw) IN
    /\ Len(t) <= m => out = t
    /\ Len(t) > m => out = SubSeq(t, 1, m)
    /\ Len(out) <= m

\* the same of an optional field, which stays None when it is absent or empty
ClampOptSpec(raw, out, m) ==
    IF Truthy(raw) THEN ClampSpec(raw, out, m) ELSE out = None

\* C7: clamp_text returns the trimmed text when it has at most max
\* characters and else its first max characters, never more than max; each
\* text field the prompt embeds went through it: dateISO 20, respSupport 30,
\* feedingMethod 30, weightKg 20, weightHistory 300, notes 1200.
C7_Clamp ==
    /\ Clamped =>
          /\ ClampSpec(form.dateISO, dateISO, 20)
          /\ ClampSpec(form.respSupport, respSupport, 30)
          /\ ClampSpec(form.feedingMethod, feedingMethod, 30)
          /\ ClampOptSpec(form.weightKg, weightKg, 20)
          /\ ClampOptSpec(form.weightHistory, weightHistory, 300)
          /\ ClampOptSpec(form.notes, notes, 1200)
    /\ prompt # NoPrompt =>
          /\ prompt.date = dateISO /\ Len(prompt.date) <= 20
          /\ prompt.resp = respSupport /\ Len(prompt.resp) <= 30
          /\ prompt.feeding = feedingMethod /\ Len(prompt.feeding) <= 30
          /\ prompt.weight \in {weightKg, Unknown} /\ Len(prompt.weight) <= 20
          /\ prompt.history \in {weightHistory, NoneText}
          /\ Len(prompt.history) <= 300
          /\ prompt.notes \in {notes, NoneText} /\ Len(prompt.notes) <= 1200

\* padded notes of more than 1200 characters were cut to 1200, and the
\* other long fields to their maxima
C7_Witness ==
    /\ prompt # NoPrompt
    /\ Head(form.notes) \in Whitespace
    /\ Len(strip(form.notes)) > 1200
    /\ prompt.notes = SubSeq(strip(form.notes), 1, 1200)
    /\ Len(prompt.date) = 20
    /\ Len(prompt.resp) = 30
    /\ Len(prompt.history) = 300

\* int() accepts the text
IntOk(s) == ParseInt(s).t = "number"

\* C8: the token "w+d" is produced only when cgaWeeks and cgaDays both
\* parse as integers, weeks in 22..44 and days in 0..6; in every other
\* case, either sub-field absent included, the derived field is absent.
C8_BothRequired ==
    Derived =>
        LET both == /\ Truthy(form.cgaWeeks) /\ Truthy(form.cgaDays)
                    /\ IntOk(form.cgaWeeks) /\ IntOk(form.cgaDays)
                    /\ ParseInt(form.cgaWeeks).v \in 22..44
                    /\ ParseInt(form.cgaDays).v \in 0..6
        IN (cga # None) <=> both

\* C8, amended: the token "w+d" is produced exactly when cgaWeeks is given
\* and parses as an integer w in 22..44 and cgaDays either is absent or
\* empty, d being 0 then, or parses as an integer d in 0..6; in every other
\* case the derived field is absent; no error is raised.
C8_DaysDefault ==
    /\ Derived =>
        LET weeksOk == /\ Truthy(form.cgaWeeks) /\ IntOk(form.cgaWeeks)
                       /\ ParseInt(form.cgaWeeks).v \in 22..44
            daysOk == \/ ~Truthy(form.cgaDays)
                      \/ IntOk(form.cgaDays) /\ ParseInt(form.cgaDays).v \in 0..6
            d == IF Truthy(form.cgaDays) THEN ParseInt(form.cgaDays).v ELSE 0
        IN IF weeksOk /\ daysOk
           THEN cga = Decimal(ParseInt(form.cgaWeeks).v) \o <<"+">> \o Decimal(d)
           ELSE cga = None
    /\ pc = "gate" => response = NoResponse

\* weeks 30 and no days: the token is 30+0
C8_Witness ==
    /\ Derived
    /\ form.cgaDays = None
    /\ cga = <<"3", "0", "+", "0">>

BaseRecord ==
    Dict([summary |-> Dict([breathing |-> List(<<>>), feeding |-> List(<<>>),
                            growth |-> List(<<>>), events |-> List(<<>>)]),
          questions |-> Dict([breathing |-> List(<<>>), feeding |-> List(<<>>),
                              growth |-> List(<<>>), events |-> List(<<>>),
                              discharge |-> List(<<>>)])])

\* no notes, no weight, room air and combination feeding
Quiet ==
    /\ ~Truthy(form.notes)
    /\ ~Truthy(form.weightKg)
    /\ form.respSupport = <<"R", "o", "o", "m", " ", "a", "i", "r">>
    /\ form.feedingMethod = <<"C", "o", "m", "b", "o">>

\* C9: a request with no notes, no weight value, respSupport "Room air" and
\* feedingMethod "Combo" ends with the base empty Canonical Record, the
\* service never invoked.
C9_AlwaysEmpty ==
    (Quiet /\ pc = "done") =>
        /\ response = [status |-> 200, body |-> BaseRecord]
        /\ calls = 0

\* C9, amended: for such a request the service is never invoked; the
\* handler returns the base empty Canonical Record when OPENAI_API_KEY is
\* set, and the missing-key error, which it checks first, when it is not.
C9_ShortCircuit ==
    Quiet =>
        /\ calls = 0
        /\ reply = Unset
        /\ pc \in {"start", "cga", "gate", "done"}
        /\ pc = "done" =>
              IF Truthy(api_key)
              THEN response = [status |-> 200, body |-> BaseRecord]
              ELSE response.status = 500 /\ response = MissingKeyError

\* a request with empty notes was answered with the base record
C9_Witness ==
    /\ Quiet
    /\ form.notes = <<>>
    /\ pc = "done"
    /\ response = [status |-> 200, body |-> BaseRecord]
    /\ calls = 0

\* the call raised, or its content does not parse
Failed == \/ reply.t = "raise"
          \/ reply.t = "content" /\ JsonLoads(reply).t = "raise"

\* C10: when the call raises or its content does not parse, the request
\* ends with the error outcome, never a record, the service having been
\* invoked exactly once.
C10_SingleError ==
    /\ calls <= 1
    /\ Failed =>
          /\ calls = 1
          /\ parsed = Unset /\ safe = Unset
          /\ pc \in {"parse", "done"}
          /\ pc = "done" =>
                /\ response.status = 500
                /\ response.body.t = "dict"
                /\ DOMAIN response.body.v = {"error"}

\* a content of None ended the request with the error
C10_Witness ==
    /\ pc = "done"
    /\ reply = NoneContent
    /\ calls = 1
    /\ response.status = 500

=============================================================================
